---- MODULE Spec2Model ----
(***************************************************************************)
(* State-machine model of the rustpbx media core:                          *)
(*   - src/media/dtmf.rs       DtmfPayload::parse, DtmfDetector            *)
(*   - src/media/processor.rs  ProcessorChain                              *)
(* The two subsystems share no state.  SpecDtmf drives one DtmfDetector,   *)
(* SpecChain drives one ProcessorChain; Spec is their composition.         *)
(***************************************************************************)
EXTENDS Integers, Sequences, FiniteSets, TLC

(***************************************************************************)
(* Option<T>: None is the empty sequence, Some(x) the one-element one.     *)
(***************************************************************************)
None == <<>>
Some(x) == <<x>>

(***************************************************************************)
(* DTMF events as per RFC 4733 (dtmf.rs:4-19).                             *)
(***************************************************************************)
DTMF_EVENT_0 == 0
DTMF_EVENT_1 == 1
DTMF_EVENT_2 == 2
DTMF_EVENT_3 == 3
DTMF_EVENT_4 == 4
DTMF_EVENT_5 == 5
DTMF_EVENT_6 == 6
DTMF_EVENT_7 == 7
DTMF_EVENT_8 == 8
DTMF_EVENT_9 == 9
DTMF_EVENT_STAR == 10
DTMF_EVENT_POUND == 11
DTMF_EVENT_A == 12
DTMF_EVENT_B == 13
DTMF_EVENT_C == 14
DTMF_EVENT_D == 15

\* Width of last_event (AtomicU8).  last_duration is an AtomicU64 that only
\* ever holds `payload[3] as u16 as u64`, a value below 256, so the u64
\* arithmetic of dtmf.rs:107 never wraps and is exact on integers.
U8 == 256

\* Bit7 with the mask one bit off (0b0100_0000).
Bit7_WrongMask(b) == ((b \div 64) % 2) = 1

\* b & 0b1000_0000 != 0, b & 0b0111_1111, b & 0b0011_1111 on a byte b.
Bit7(b) == ((b \div 128) % 2) = 1
Low7(b) == b % 128
Low6(b) == b % 64

\* DtmfPayload::parse reading the duration from the two bytes payload[2..4]
\* (big-endian) instead of from payload[3] alone.
DtmfPayloadParse_Duration16(payload) ==
    IF Len(payload) < 4 THEN None
    ELSE LET event == payload[1] IN
         IF event > DTMF_EVENT_D THEN None
         ELSE Some([event    |-> event,
                    is_end   |-> Bit7(payload[2]),
                    reserved |-> Low7(payload[2]),
                    volume   |-> Low6(payload[3]),
                    duration |-> payload[3] * 256 + payload[4]])

(***************************************************************************)
(* DtmfPayload::parse.  A payload is a sequence of bytes; Rust's           *)
(* payload[k] is payload[k+1] here.                                        *)
(***************************************************************************)
DtmfPayloadParse(payload) ==
    IF Len(payload) < 4 THEN None
    ELSE LET event == payload[1] IN
         IF event > DTMF_EVENT_D THEN None
         ELSE Some([event    |-> event,
                    is_end   |-> Bit7(payload[2]),
                    reserved |-> Low7(payload[2]),
                    volume   |-> Low6(payload[3]),
                    duration |-> IF Len(payload) >= 4 THEN payload[4] ELSE 0])

\* DigitSymbol with the arms of DTMF_EVENT_STAR and DTMF_EVENT_POUND swapped.
DigitSymbol_StarPoundSwapped(event) ==
    IF event \in 0..15
    THEN Some(<<"0", "1", "2", "3", "4", "5", "6", "7", "8", "9",
                "#", "*", "A", "B", "C", "D">>[event + 1])
    ELSE None

\* The match of dtmf.rs:118-136: the digit's symbol, or None for `_`.
DigitSymbol(event) ==
    CASE event = DTMF_EVENT_0 -> Some("0")
      [] event = DTMF_EVENT_1 -> Some("1")
      [] event = DTMF_EVENT_2 -> Some("2")
      [] event = DTMF_EVENT_3 -> Some("3")
      [] event = DTMF_EVENT_4 -> Some("4")
      [] event = DTMF_EVENT_5 -> Some("5")
      [] event = DTMF_EVENT_6 -> Some("6")
      [] event = DTMF_EVENT_7 -> Some("7")
      [] event = DTMF_EVENT_8 -> Some("8")
      [] event = DTMF_EVENT_9 -> Some("9")
      [] event = DTMF_EVENT_STAR -> Some("*")
      [] event = DTMF_EVENT_POUND -> Some("#")
      [] event = DTMF_EVENT_A -> Some("A")
      [] event = DTMF_EVENT_B -> Some("B")
      [] event = DTMF_EVENT_C -> Some("C")
      [] event = DTMF_EVENT_D -> Some("D")
      [] OTHER -> None

\* PayloadTypeInRange with the upper limit one too high.
PayloadTypeInRange_UpperOffByOne(payload_type) ==
    ~(payload_type < 96 \/ payload_type > 128)

\* dtmf.rs:86: the dynamic payload-type range.
PayloadTypeInRange(payload_type) == ~(payload_type < 96 \/ payload_type > 127)

\* IsDuplicate with the window closed one unit late (<= 100).
IsDuplicate_WindowOffByOne(event, current_duration, le, ld) ==
    /\ event = le
    /\ IF current_duration <= ld THEN TRUE
       ELSE current_duration - ld <= 100

\* dtmf.rs:106-107: same event with a similar duration.  The subtraction is
\* evaluated only when current_duration > last_duration (|| short-circuits).
IsDuplicate(event, current_duration, le, ld) ==
    /\ event = le
    /\ IF current_duration <= ld THEN TRUE
       ELSE current_duration - ld < 100

(***************************************************************************)
(* DtmfDetector::detect_rtp as a function of the detector's fields (le,    *)
(* ld) and the arguments: the returned Option<String>, the fields after    *)
(* the call and the return statement taken.                                *)
(***************************************************************************)
DetectOutcome(ret, le, ld, exit) ==
    [ret |-> ret, last_event |-> le, last_duration |-> ld, exit |-> exit]

DetectRtpResult(le, ld, payload_type, payload) ==
    IF Len(payload) < 4 THEN DetectOutcome(None, le, ld, "short")
    ELSE IF ~PayloadTypeInRange(payload_type)
    THEN DetectOutcome(None, le, ld, "payload_type")
    ELSE LET parsed == DtmfPayloadParse(payload) IN
    IF parsed = None THEN DetectOutcome(None, le, ld, "parse")
    ELSE LET dtmf_payload == parsed[1] IN
    IF ~dtmf_payload.is_end THEN DetectOutcome(None, le, ld, "not_end")
    ELSE LET current_duration == dtmf_payload.duration IN
    IF IsDuplicate(dtmf_payload.event, current_duration, le, ld)
    THEN DetectOutcome(None, le, ld, "duplicate")
    ELSE \* the two stores come before the match
         DetectOutcome(DigitSymbol(dtmf_payload.event),
                       dtmf_payload.event % U8, current_duration,
                       IF DigitSymbol(dtmf_payload.event) = None
                       THEN "invalid_event" ELSE "digit")

(***************************************************************************)
(* processor.rs: AudioFrame, Samples, Processor, ProcessorChain.           *)
(***************************************************************************)
\* Samples, a tagged union.
SamplesEmpty == [form |-> "Empty"]
SamplesPCM(samples) == [form |-> "PCM", samples |-> samples]
SamplesRTP(payload_type, payload) ==
    [form |-> "RTP", payload_type |-> payload_type, payload |-> payload]

AudioFrame(track_id, samples, timestamp, sample_rate) ==
    [track_id |-> track_id, samples |-> samples,
     timestamp |-> timestamp, sample_rate |-> sample_rate]

\* impl Default for AudioFrame
AudioFrameDefault == AudioFrame("", SamplesEmpty, 0, 16000)

\* Result<()> of process_frame; the error carries the processor that raised it.
Ok == <<"Ok">>
Err(e) == <<"Err", e>>
Unit == <<"Unit">>
Bool(b) == <<"Bool", b>>

\* TrackCodec::is_audio: the payload types of the three audio codecs
\* (PCMU, PCMA, G722).  Every other payload type, the telephone-event ones
\* included, is not audio.
AudioPayloadTypes == {0, 8, 9}
IsAudio(payload_type) == payload_type \in AudioPayloadTypes

\* The fixed rate of each codec: 8000 Hz for PCMU and PCMA, 16000 Hz for G722.
CodecSampleRate(payload_type) == IF payload_type = 9 THEN 16000 ELSE 8000

\* One encoded byte as PCM: one sample for the companding codecs, two for
\* G.722 (4 bits each).  The sample values stand for the codec bodies' math.
RECURSIVE CodecExpand(_, _)
CodecExpand(payload_type, payload) ==
    IF payload = <<>> THEN <<>>
    ELSE LET b == Head(payload) IN
         (IF payload_type = 9 THEN <<(b \div 16) - 8, (b % 16) - 8>>
          ELSE IF payload_type = 8 THEN <<b - 128>>
          ELSE <<127 - b>>)
         \o CodecExpand(payload_type, Tail(payload))

\* Resampling between the two rates: doubling repeats each sample, halving
\* keeps every other one.
RECURSIVE Resample(_, _, _)
Resample(samples, from, to) ==
    IF from = to \/ samples = <<>> THEN samples
    ELSE IF to = 2 * from
    THEN <<Head(samples), Head(samples)>> \o Resample(Tail(samples), from, to)
    ELSE IF from = 2 * to
    THEN <<Head(samples)>> \o
         Resample(IF Len(samples) >= 2 THEN Tail(Tail(samples)) ELSE <<>>, from, to)
    ELSE samples

\* TrackCodec::decode(payload_type, payload, target_sample_rate): the PCM
\* samples at the target rate.  It has no failure result (processor.rs:81-86
\* stores what it returns as the samples).
TrackCodecDecode(payload_type, payload, target_sample_rate) ==
    Resample(CodecExpand(payload_type, payload),
             CodecSampleRate(payload_type), target_sample_rate)

\* What TrackCodec::decode hands back when the codec of the payload type
\* could not decode the payload: the substitute for the missing audio.
CodecSubstitute == <<>>

\* The codec layer's error for a payload it cannot decode.
DecodeError == [type |-> "DecodeError", id |-> 0]

(***************************************************************************)
(* Processors are supplied by callers; the chain only orders and invokes   *)
(* them.  An instance has a type (what has_processor::<T> and              *)
(* remove_processor::<T> look at) and a value; an invocation either        *)
(* succeeds or fails, having mutated the frame or not.                     *)
(***************************************************************************)
ProcTypes == {"Denoiser", "Recorder"}
\* The instances the callers build: two of one type, one of the other.
Processors ==
    {[type |-> "Denoiser", id |-> 1], [type |-> "Denoiser", id |-> 2],
     [type |-> "Recorder", id |-> 1]}
ProcOutcomes == {"ok", "fail_clean", "fail_dirty"}

\* The sample (or byte) an instance leaves on the frames it mutates.
ProcMark(p) == (IF p.type = "Denoiser" THEN 100 ELSE 200) + p.id

\* What a processor's process_frame does to the frame when it mutates it:
\* it appends its mark to the samples (PCM) or to the payload (RTP), keeping
\* the form, and has nothing to change in an Empty frame.
ProcMutate(p, frame) ==
    CASE frame.samples.form = "PCM" ->
           [frame EXCEPT !.samples = SamplesPCM(Append(frame.samples.samples, ProcMark(p)))]
      [] frame.samples.form = "RTP" ->
           [frame EXCEPT !.samples = SamplesRTP(frame.samples.payload_type,
                                                Append(frame.samples.payload, ProcMark(p)))]
      [] OTHER -> frame

\* Processor::process_frame(&self, frame) with the given outcome.
ProcessorProcessFrame(p, frame, outcome) ==
    [frame  |-> IF outcome \in {"ok", "fail_dirty"} THEN ProcMutate(p, frame) ELSE frame,
     result |-> IF outcome = "ok" THEN Ok ELSE Err(p)]

\* Vec::insert(0, processor) with push's effect instead.
VecInsertFront_Pushes(list, p) == Append(list, p)

\* processor.rs:50 Vec::insert(0, processor)
VecInsertFront(list, p) == <<p>> \o list

\* processor.rs:53 Vec::push(processor)
VecPush(list, p) == Append(list, p)

\* any() replaced by a look at the first processor only.
AnyOfType_FirstOnly(list, T) == list # <<>> /\ list[1].type = T

\* processor.rs:58-60 iter().any(is::<T>())
AnyOfType(list, T) == \E i \in 1..Len(list) : list[i].type = T

\* retain() replaced by the removal of the first processor of type T only.
RetainNotOfType_FirstMatchOnly(list, T) ==
    IF \E i \in 1..Len(list) : list[i].type = T
    THEN LET k == CHOOSE i \in 1..Len(list) :
                    /\ list[i].type = T
                    /\ \A j \in 1..(i - 1) : list[j].type # T
         IN SubSeq(list, 1, k - 1) \o SubSeq(list, k + 1, Len(list))
    ELSE list

\* processor.rs:65 retain(!is::<T>())
RetainNotOfType(list, T) ==
    LET Keep(p) == p.type # T IN SelectSeq(list, Keep)

\* The fast-exit test with the emptiness test negated.
FastExit_NegatedEmpty(force_decode_h, list) ==
    ~force_decode_h /\ ~(list = <<>>)

\* processor.rs:70 !self.force_decode && processors.is_empty()
FastExit(force_decode_h, list) == ~force_decode_h /\ list = <<>>

\* The decode gate without the is_audio test.
NeedsDecode_AnyRtp(frame) == frame.samples.form = "RTP"

\* processor.rs:74-80: an RTP frame of an audio payload type.
NeedsDecode(frame) ==
    /\ frame.samples.form = "RTP"
    /\ IsAudio(frame.samples.payload_type)

\* The decode call with a Result that `?` hands to the caller of
\* process_frame when the codec could not decode.
DecodeCall_Fallible(codec_ok, decoded) ==
    [result  |-> IF codec_ok THEN Ok ELSE Err(DecodeError),
     samples |-> IF codec_ok THEN decoded ELSE CodecSubstitute]

\* processor.rs:81-85 `let samples = self.codec.lock().unwrap().decode(..)`:
\* decode returns the samples themselves, so the statement always completes,
\* with the codec's substitute when the codec could not decode.
DecodeCall(codec_ok, decoded) ==
    [result  |-> Ok,
     samples |-> IF codec_ok THEN decoded ELSE CodecSubstitute]

\* The decode result stored with the frame's own sample_rate left in place.
DecodedFrame_KeepsRate(frame, samples, chain_sample_rate) ==
    [frame EXCEPT !.samples = SamplesPCM(samples)]

\* processor.rs:86-87: the frame after the decode.
DecodedFrame(frame, samples, chain_sample_rate) ==
    [frame EXCEPT !.samples = SamplesPCM(samples), !.sample_rate = chain_sample_rate]

\* A failing processor whose failure undoes the frame's changes.
FrameOnError_RolledBack(frame_now, frame_at_entry) == frame_at_entry

\* processor.rs:92: `?` returns with the frame as the processors left it.
FrameOnError(frame_now, frame_at_entry) == frame_now

\* A Mutex nobody holds.
NoOwner == 0

\* A lock() that does not wait for the holder.
MutexLockable_Unguarded(owner, t) == TRUE

\* A lock() that lets the holding thread in again.
MutexLockable_Reentrant(owner, t) == owner = NoOwner \/ owner = t

\* processor.rs:50, 53, 57, 64, 69, 84 Mutex::lock(): the call returns only
\* when nobody holds the mutex, the calling thread included (std::sync::Mutex
\* is not reentrant).
MutexLockable(owner, t) == owner = NoOwner

\* The guard kept on the error path.
DropGuardOnError_Leaked(owner, t) == owner

\* processor.rs:92: the MutexGuard of line 69 is dropped by the early return.
DropGuardOnError(owner, t) == IF owner = t THEN NoOwner ELSE owner

\* A guard that outlives the call.
DropGuard_Leaked(owner, t) == owner

\* The MutexGuard is dropped at the end of its scope (lines 71, 94) or of
\* its statement (line 85).
DropGuard(owner, t) == IF owner = t THEN NoOwner ELSE owner

(***************************************************************************)
(* Inputs of the exploration.                                              *)
(***************************************************************************)
\* Longest payload handed to detect_rtp.
MaxPayloadLen == 4
\* d_calls stops counting here.
MaxCallCount == 2
PayloadTypes == {0, 95, 96, 101, 127, 128}
EventBytes == (0..16) \cup {20, 255}
FlagBytes == {0, 127, 128, 255}
VolumeBytes == {10}
DurationBytes == {0, 1, 50, 99, 100, 101, 150, 155, 156, 199, 200, 210, 254, 255}

\* The bytes the exploration puts at (1-based) position k of a payload.
BytesAt(k) ==
    CASE k = 1 -> EventBytes
      [] k = 2 -> FlagBytes
      [] k = 3 -> VolumeBytes
      [] k = 4 -> DurationBytes
      [] OTHER -> {0}

\* Longest processor list the exploration builds.
MaxProcs == 3
\* Longest RTP payload of an input frame.
MaxRtpLen == 2
ChainRates == {8000, 16000}
FrameRates == {8000, 16000}
RtpPayloadTypes == {0, 8, 9, 13, 101}
RtpBytes == {37, 200}
PcmInputs == {<<>>, <<5, -3>>}

RECURSIVE RtpPayloadsOfLen(_)
RtpPayloadsOfLen(n) ==
    IF n = 0 THEN {<<>>}
    ELSE {Append(p, b) : p \in RtpPayloadsOfLen(n - 1), b \in RtpBytes}

RtpPayloads == UNION {RtpPayloadsOfLen(n) : n \in 0..MaxRtpLen}

SampleInputs ==
    {SamplesEmpty}
    \cup {SamplesPCM(x) : x \in PcmInputs}
    \cup {SamplesRTP(pt, x) : pt \in RtpPayloadTypes, x \in RtpPayloads}

Frames == {AudioFrame("track-1", x, 160, r) : x \in SampleInputs, r \in FrameRates}

\* The threads that call into the chain, and the one a single-caller
\* session uses.
Threads == {1, 2}
Caller == 1
\* The handles (clones) of the chain that can exist.
Handles == {1, 2}

RECURSIVE PayloadsOfLen(_)
PayloadsOfLen(n) ==
    IF n = 0 THEN {<<>>}
    ELSE {Append(p, b) : p \in PayloadsOfLen(n - 1), b \in BytesAt(n)}

Payloads == UNION {PayloadsOfLen(n) : n \in 0..MaxPayloadLen}

VARIABLES
    last_event,     \* DtmfDetector.last_event (AtomicU8)
    last_duration,  \* DtmfDetector.last_duration (AtomicU64)
    d_pc,           \* "idle", or "returned" while the caller holds a result
    d_payload_type, \* arguments of the call that returned
    d_payload,
    d_ret,          \* its Option<String>
    d_exit,         \* the return statement it took
    pre_event,      \* last_event and last_duration as that call found them
    pre_duration,
    d_calls,        \* detect_rtp calls made so far, counted up to MaxCallCount
    rep_event,      \* history: event and duration bytes of the most recent
    rep_duration    \* call that returned a digit, among the calls before
                    \* the one in d_*; (0, 0) when there is none

dtmfVars == <<last_event, last_duration, d_pc, d_payload_type, d_payload,
              d_ret, d_exit, pre_event, pre_duration, d_calls,
              rep_event, rep_duration>>

VARIABLES
    processors,     \* the Vec behind ProcessorChain.processors
    proc_lock,      \* owner of the Mutex around it (NoOwner: unlocked)
    codec_lock,     \* owner of the Mutex around the TrackCodec
    live,           \* the handles that exist
    force_decode,   \* ProcessorChain.force_decode of each handle
    sample_rate,    \* ProcessorChain.sample_rate of each handle
    call,           \* per thread: the call it is in and where it stands
    failed_once,    \* history: some process_frame call has returned Err
    has_memo,       \* history: <<T, answer>> of the latest has_processor::<T>
                    \* call consumed since the latest insert, append or
                    \* remove call; None when there is none
    calls_left      \* the calls the threads are still going to make on the
                    \* chain, or Unbounded

chainVars == <<processors, proc_lock, codec_lock, live, force_decode,
               sample_rate, call, failed_once, has_memo, calls_left>>

VARIABLES
    codecs          \* the codec instances the factory has handed out

codecVars == <<codecs>>

VARIABLES
    det,            \* per thread: its detect_rtp call on the shared detector
    store_buffer,   \* per thread: its Relaxed stores that the other thread
                    \* cannot see yet, oldest first, as <<field, value>>
    written         \* history: the (event, duration) pairs stored by
                    \* completed accepted detections

raceVars == <<det, store_buffer, written>>

vars == <<dtmfVars, chainVars, codecVars, raceVars>>

\* What the operations of one component leave alone.
outsideDtmf == <<chainVars, codecVars, raceVars>>
outsideChain == <<dtmfVars, codecVars, raceVars>>
outsideCodec == <<dtmfVars, chainVars, raceVars>>

\* DtmfDetector::new
DtmfDetectorNew ==
    /\ last_event = 0
    /\ last_duration = 0

InitDtmf ==
    /\ DtmfDetectorNew
    /\ d_pc = "idle"
    /\ d_payload_type = 0
    /\ d_payload = <<>>
    /\ d_ret = None
    /\ d_exit = "none"
    /\ pre_event = 0
    /\ pre_duration = 0
    /\ d_calls = 0
    /\ rep_event = 0
    /\ rep_duration = 0

\* One whole detect_rtp call.
DetectRtp(payload_type, payload) ==
    /\ d_pc = "idle"
    /\ \E r \in {DetectRtpResult(last_event, last_duration, payload_type, payload)} :
       /\ last_event' = r.last_event
       /\ last_duration' = r.last_duration
       /\ d_ret' = r.ret
       /\ d_exit' = r.exit
    /\ d_pc' = "returned"
    /\ d_payload_type' = payload_type
    /\ UNCHANGED outsideDtmf
    /\ d_payload' = payload
    /\ pre_event' = last_event
    /\ pre_duration' = last_duration
    /\ d_calls' = IF d_calls < MaxCallCount THEN d_calls + 1 ELSE d_calls
    /\ UNCHANGED <<rep_event, rep_duration>>

\* The caller is done with the returned Option<String>; the next packet of
\* the stream can be fed.
DropResult ==
    /\ d_pc = "returned"
    /\ d_pc' = "idle"
    /\ IF d_ret # None
       THEN rep_event' = d_payload[1] /\ rep_duration' = d_payload[4]
       ELSE UNCHANGED <<rep_event, rep_duration>>
    /\ d_payload_type' = 0
    /\ d_payload' = <<>>
    /\ d_ret' = None
    /\ d_exit' = "none"
    /\ pre_event' = 0
    /\ pre_duration' = 0
    /\ UNCHANGED <<last_event, last_duration, d_calls>>
    /\ UNCHANGED outsideDtmf

NextDtmf ==
    \/ /\ d_pc = "idle"
       /\ \E payload_type \in PayloadTypes, payload \in Payloads :
            DetectRtp(payload_type, payload)
    \/ DropResult

\* The callers of the chain: how many more calls they will make.  Unbounded
\* callers go on for ever; a workload of n calls ends after them.
Unbounded == -1
CanSpend(left) == left = Unbounded \/ left > 0
Spend(left) == IF left = Unbounded THEN Unbounded ELSE left - 1

(***************************************************************************)
(* ProcessorChain.  A call record holds, for one thread, the operation it  *)
(* is in (op), its position (pc), the handle it goes through, the caller's *)
(* &mut frame, and what the properties need of the call's history: the     *)
(* frame, list and flags as the call found them, the processors it has     *)
(* invoked and whether it has called the codec.                            *)
(***************************************************************************)
IdleCall ==
    [pc |-> "idle", op |-> "none", handle |-> 0, arg |-> <<>>,
     frame |-> AudioFrameDefault, frame0 |-> AudioFrameDefault,
     procs0 |-> <<>>, fd0 |-> TRUE, rate0 |-> 0,
     idx |-> 0, ran |-> <<>>, decoded |-> FALSE, codec_failed |-> FALSE,
     nested |-> None, ret |-> <<>>]

\* ProcessorChain::new(sample_rate)
ProcessorChainNew(rate) ==
    /\ processors = <<>>
    /\ proc_lock = NoOwner
    /\ codec_lock = NoOwner
    /\ live = {1}
    /\ sample_rate = [h \in {1} |-> rate]
    /\ force_decode = [h \in {1} |-> TRUE]

InitChain ==
    /\ \E rate \in ChainRates : ProcessorChainNew(rate)
    /\ call = [t \in Threads |-> IdleCall]
    /\ failed_once = FALSE
    /\ has_memo = None
    /\ calls_left = Unbounded

\* #[derive(Clone)]: the new handle shares the two Arcs and copies
\* sample_rate and force_decode.
Clone(t, h, h2) ==
    /\ call[t].pc = "idle"
    /\ h \in live /\ h2 \notin live
    /\ live' = live \cup {h2}
    /\ sample_rate' = [x \in live \cup {h2} |-> IF x = h2 THEN sample_rate[h] ELSE sample_rate[x]]
    /\ force_decode' = [x \in live \cup {h2} |-> IF x = h2 THEN force_decode[h] ELSE force_decode[x]]
    /\ UNCHANGED <<processors, proc_lock, codec_lock, call, failed_once, has_memo, calls_left>>
    /\ UNCHANGED outsideChain

\* An assignment to the pub field force_decode of handle h.
SetForceDecode(t, h, b) ==
    /\ call[t].pc = "idle"
    /\ h \in live
    /\ force_decode[h] # b
    /\ force_decode' = [force_decode EXCEPT ![h] = b]
    /\ UNCHANGED <<processors, proc_lock, codec_lock, live, sample_rate, call, failed_once, has_memo, calls_left>>
    /\ UNCHANGED outsideChain

\* A whole call of one of the four list operations: lock, act, unlock.
ListCall(t, h, op, arg, list, ret) ==
    /\ call[t].pc = "idle"
    /\ h \in live
    /\ MutexLockable(proc_lock, t)
    /\ processors' = list
    /\ call' = [call EXCEPT ![t] =
                  [IdleCall EXCEPT !.pc = "done", !.op = op, !.handle = h,
                                   !.arg = arg, !.procs0 = processors,
                                   !.fd0 = force_decode[h], !.rate0 = sample_rate[h],
                                   !.ret = ret]]
    /\ UNCHANGED <<proc_lock, codec_lock, live, force_decode, sample_rate, failed_once, has_memo>>
    /\ CanSpend(calls_left)
    /\ calls_left' = Spend(calls_left)
    /\ UNCHANGED outsideChain

InsertProcessor(t, h, p) ==
    /\ Len(processors) < MaxProcs
    /\ ListCall(t, h, "insert_processor", p, VecInsertFront(processors, p), Unit)

AppendProcessor(t, h, p) ==
    /\ Len(processors) < MaxProcs
    /\ ListCall(t, h, "append_processor", p, VecPush(processors, p), Unit)

HasProcessor(t, h, T) ==
    ListCall(t, h, "has_processor", T, processors, Bool(AnyOfType(processors, T)))

RemoveProcessor(t, h, T) ==
    ListCall(t, h, "remove_processor", T, RetainNotOfType(processors, T), Unit)

\* process_frame(&self, frame) is entered.
ProcessFrameCall(t, h, f) ==
    /\ call[t].pc = "idle"
    /\ h \in live
    /\ call' = [call EXCEPT ![t] =
                  [IdleCall EXCEPT !.pc = "pf_lock", !.op = "process_frame",
                                   !.handle = h, !.frame = f, !.frame0 = f,
                                   !.fd0 = force_decode[h], !.rate0 = sample_rate[h]]]
    /\ UNCHANGED <<processors, proc_lock, codec_lock, live, force_decode, sample_rate, failed_once, has_memo>>
    /\ CanSpend(calls_left)
    /\ calls_left' = Spend(calls_left)
    /\ UNCHANGED outsideChain

\* processor.rs:69 self.processors.lock()
ProcessFrameLock(t) ==
    /\ call[t].pc = "pf_lock"
    /\ MutexLockable(proc_lock, t)
    /\ proc_lock' = t
    /\ call' = [call EXCEPT ![t].pc = "pf_check", ![t].procs0 = processors]
    /\ UNCHANGED <<processors, codec_lock, live, force_decode, sample_rate, failed_once, has_memo, calls_left>>
    /\ UNCHANGED outsideChain

\* processor.rs:70-72 the fast exit
ProcessFrameCheck(t) ==
    /\ call[t].pc = "pf_check"
    /\ IF FastExit(force_decode[call[t].handle], processors)
       THEN /\ proc_lock' = DropGuard(proc_lock, t)
            /\ call' = [call EXCEPT ![t].pc = "done", ![t].ret = Ok]
       ELSE /\ call' = [call EXCEPT ![t].pc = "pf_decode"]
            /\ UNCHANGED proc_lock
    /\ UNCHANGED <<processors, codec_lock, live, force_decode, sample_rate, failed_once, has_memo, calls_left>>
    /\ UNCHANGED outsideChain

\* processor.rs:74-84: the decode gate and self.codec.lock()
ProcessFrameGate(t) ==
    /\ call[t].pc = "pf_decode"
    /\ IF NeedsDecode(call[t].frame)
       THEN /\ MutexLockable(codec_lock, t)
            /\ codec_lock' = t
            /\ call' = [call EXCEPT ![t].pc = "pf_codec"]
       ELSE /\ call' = [call EXCEPT ![t].pc = "pf_loop", ![t].idx = 1]
            /\ UNCHANGED codec_lock
    /\ UNCHANGED <<processors, proc_lock, live, force_decode, sample_rate, failed_once, has_memo, calls_left>>
    /\ UNCHANGED outsideChain

\* processor.rs:81-87: decode under the codec lock, then store the result
\* codec_ok: whether the codec could decode the payload.
ProcessFrameDecode(t, codec_ok) ==
    /\ call[t].pc = "pf_codec"
    /\ LET f == call[t].frame
           rate == sample_rate[call[t].handle]
           r == DecodeCall(codec_ok,
                           TrackCodecDecode(f.samples.payload_type, f.samples.payload, rate))
       IN IF r.result = Ok
          THEN /\ call' = [call EXCEPT ![t].pc = "pf_loop", ![t].idx = 1,
                                       ![t].decoded = TRUE,
                                       ![t].codec_failed = ~codec_ok,
                                       ![t].frame = DecodedFrame(f, r.samples, rate)]
               /\ UNCHANGED proc_lock
          ELSE /\ call' = [call EXCEPT ![t].pc = "done",
                                       ![t].decoded = TRUE,
                                       ![t].codec_failed = ~codec_ok,
                                       ![t].ret = r.result]
               /\ proc_lock' = DropGuard(proc_lock, t)
    /\ codec_lock' = DropGuard(codec_lock, t)
    /\ UNCHANGED <<processors, live, force_decode, sample_rate, failed_once, has_memo, calls_left>>
    /\ UNCHANGED outsideChain

\* processor.rs:91-93: one turn of the loop, processor.process_frame(frame)?
ProcessFrameRun(t, outcome) ==
    /\ call[t].pc = "pf_loop"
    /\ call[t].idx <= Len(processors)
    /\ LET p == processors[call[t].idx]
           r == ProcessorProcessFrame(p, call[t].frame, outcome)
       IN IF r.result = Ok
          THEN /\ call' = [call EXCEPT ![t].frame = r.frame,
                                       ![t].ran = Append(@, p),
                                       ![t].idx = @ + 1]
               /\ UNCHANGED <<proc_lock, failed_once>>
          ELSE /\ call' = [call EXCEPT ![t].frame = FrameOnError(r.frame, call[t].frame0),
                                       ![t].ran = Append(@, p),
                                       ![t].pc = "done",
                                       ![t].ret = r.result]
               /\ proc_lock' = DropGuardOnError(proc_lock, t)
               /\ failed_once' = TRUE
    /\ UNCHANGED <<processors, codec_lock, live, force_decode, sample_rate, has_memo, calls_left>>
    /\ UNCHANGED outsideChain

\* processor.rs:94 Ok(())
ProcessFrameReturn(t) ==
    /\ call[t].pc = "pf_loop"
    /\ call[t].idx > Len(processors)
    /\ call' = [call EXCEPT ![t].pc = "done", ![t].ret = Ok]
    /\ proc_lock' = DropGuard(proc_lock, t)
    /\ UNCHANGED <<processors, codec_lock, live, force_decode, sample_rate, failed_once, has_memo, calls_left>>
    /\ UNCHANGED outsideChain

\* The caller has looked at what the call returned and at its frame.
Finish(t) ==
    /\ call[t].pc = "done"
    /\ call' = [call EXCEPT ![t] = IdleCall]
    /\ has_memo' = CASE call[t].op = "has_processor" -> <<call[t].arg, call[t].ret>>
                      [] call[t].op \in {"insert_processor", "append_processor",
                                         "remove_processor"} -> None
                      [] OTHER -> has_memo
    /\ UNCHANGED <<processors, proc_lock, codec_lock, live, force_decode, sample_rate, failed_once, calls_left>>
    /\ UNCHANGED outsideChain

\* The steps of thread t.
ThreadNext(t) ==
    \/ /\ call[t].pc = "idle"
       /\ \/ \E h \in Handles, b \in BOOLEAN : SetForceDecode(t, h, b)
          \/ \E h \in Handles, p \in Processors : InsertProcessor(t, h, p)
          \/ \E h \in Handles, p \in Processors : AppendProcessor(t, h, p)
          \/ \E h \in Handles, T \in ProcTypes : HasProcessor(t, h, T)
          \/ \E h \in Handles, T \in ProcTypes : RemoveProcessor(t, h, T)
          \/ \E h \in Handles, f \in Frames : ProcessFrameCall(t, h, f)
    \/ ProcessFrameLock(t)
    \/ ProcessFrameCheck(t)
    \/ ProcessFrameGate(t)
    \/ \E codec_ok \in BOOLEAN : ProcessFrameDecode(t, codec_ok)
    \/ \E outcome \in ProcOutcomes : ProcessFrameRun(t, outcome)
    \/ ProcessFrameReturn(t)
    \/ Finish(t)

\* One session thread drives the chain through its first handle: calls do
\* not overlap.
NextChain == ThreadNext(Caller)

\* A further handle is cloned.
NextClone == \E t \in Threads, h \in Handles, h2 \in Handles : Clone(t, h, h2)

(***************************************************************************)
(* The codec factory and the codec instances, as codecs/tests.rs uses      *)
(* them.  Each concrete codec type has a constructor of its own, which     *)
(* sets what the instance will answer to sample_rate() and channels();     *)
(* create_decoder and create_encoder pick the constructor by CodecType.    *)
(* An encoder is called through &mut self and may keep state between       *)
(* calls: G.722 works on pairs of samples and keeps an unpaired sample for *)
(* the next call.  A decoder is called through &self.                      *)
(***************************************************************************)
CodecTypes == {"PCMU", "PCMA", "G722"}

\* test_codec_factory keeps six instances alive at once.
MaxCodecs == 6

\* test_g722_encode hands the encoder chunks of this many samples.
max_pcm_chunk_size == 320

\* The sample counts handed to encode: a full chunk, the 160 samples of the
\* G.711 round trips, and last chunks of odd and of even length.
EncodeLengths == {1, 40, 160, max_pcm_chunk_size}

\* Result::Ok(v).unwrap() is v.
Unwrap(result) == result[2]

\* pcmu::PcmuDecoder::new(), pcma::PcmaDecoder::new(), g722::G722Decoder::new()
PcmuDecoderNew ==
    [role |-> "decoder", codec_type |-> "PCMU",
     sample_rate |-> 8000, channels |-> 1, residual |-> 0]

PcmaDecoderNew ==
    [role |-> "decoder", codec_type |-> "PCMA",
     sample_rate |-> 8000, channels |-> 1, residual |-> 0]

G722DecoderNew ==
    [role |-> "decoder", codec_type |-> "G722",
     sample_rate |-> 16000, channels |-> 1, residual |-> 0]

\* pcmu::PcmuEncoder::new(), pcma::PcmaEncoder::new(), g722::G722Encoder::new()
PcmuEncoderNew ==
    [role |-> "encoder", codec_type |-> "PCMU",
     sample_rate |-> 8000, channels |-> 1, residual |-> 0]

PcmaEncoderNew ==
    [role |-> "encoder", codec_type |-> "PCMA",
     sample_rate |-> 8000, channels |-> 1, residual |-> 0]

G722EncoderNew ==
    [role |-> "encoder", codec_type |-> "G722",
     sample_rate |-> 16000, channels |-> 1, residual |-> 0]

\* create_decoder(codec_type), create_encoder(codec_type)
create_decoder(codec_type) ==
    CASE codec_type = "PCMU" -> <<"Ok", PcmuDecoderNew>>
      [] codec_type = "PCMA" -> <<"Ok", PcmaDecoderNew>>
      [] codec_type = "G722" -> <<"Ok", G722DecoderNew>>
      [] OTHER -> Err("UnsupportedCodec")

create_encoder(codec_type) ==
    CASE codec_type = "PCMU" -> <<"Ok", PcmuEncoderNew>>
      [] codec_type = "PCMA" -> <<"Ok", PcmaEncoderNew>>
      [] codec_type = "G722" -> <<"Ok", G722EncoderNew>>
      [] OTHER -> Err("UnsupportedCodec")

\* Decoder::sample_rate / Encoder::sample_rate, ::channels: what the
\* instance holds.
sample_rate_of(codec) == codec.sample_rate
channels_of(codec) == codec.channels

\* An encode that, once it holds an unpaired sample, reports the rate of the
\* pairs it emits instead of the rate of its input.
encode_ReportsPairRate(codec, samples_len) ==
    IF codec.codec_type = "G722"
    THEN [codec EXCEPT !.residual = (@ + samples_len) % 2,
                       !.sample_rate =
                           IF (codec.residual + samples_len) % 2 = 1
                           THEN 8000 ELSE @]
    ELSE codec

\* encoder.encode(samples) with samples_len samples: the instance after the
\* call.  G.711 encodes sample by sample; G.722 encodes the pairs and keeps
\* the sample left over.
encode(codec, samples_len) ==
    IF codec.codec_type = "G722"
    THEN [codec EXCEPT !.residual = (@ + samples_len) % 2]
    ELSE codec

\* decoder.decode(bytes): the instance after the call (&self).
decode(codec) == codec

InitCodec == codecs = <<>>

CreateDecoder(codec_type) ==
    /\ Len(codecs) < MaxCodecs
    /\ codecs' = Append(codecs, Unwrap(create_decoder(codec_type)))
    /\ UNCHANGED outsideCodec

CreateEncoder(codec_type) ==
    /\ Len(codecs) < MaxCodecs
    /\ codecs' = Append(codecs, Unwrap(create_encoder(codec_type)))
    /\ UNCHANGED outsideCodec

\* encoder.encode(..) on instance i, any number of times.
CodecEncode(i, samples_len) ==
    /\ i \in 1..Len(codecs)
    /\ codecs[i].role = "encoder"
    /\ codecs' = [codecs EXCEPT ![i] = encode(@, samples_len)]
    /\ UNCHANGED outsideCodec

\* decoder.decode(..) on instance i, any number of times.
CodecDecode(i) ==
    /\ i \in 1..Len(codecs)
    /\ codecs[i].role = "decoder"
    /\ codecs' = [codecs EXCEPT ![i] = decode(@)]
    /\ UNCHANGED outsideCodec

\* End of a scope: locals are dropped in reverse order of declaration, so
\* the instance to go is the newest one alive.  A shadowed binding (the
\* earlier `let decoder`) stays alive until then.
CodecDrop ==
    /\ codecs # <<>>
    /\ codecs' = SubSeq(codecs, 1, Len(codecs) - 1)
    /\ UNCHANGED outsideCodec

NextCodec ==
    \/ \E codec_type \in CodecTypes : CreateDecoder(codec_type)
    \/ \E codec_type \in CodecTypes : CreateEncoder(codec_type)
    \/ \E i \in 1..MaxCodecs, samples_len \in EncodeLengths :
          CodecEncode(i, samples_len)
    \/ \E i \in 1..MaxCodecs : CodecDecode(i)
    \/ CodecDrop

(***************************************************************************)
(* detect_rtp called by two threads on one DtmfDetector (&self, the fields *)
(* are atomics).  Every load and store of a field is a step of its own;    *)
(* what lies between them works on the call's locals.  The accesses are    *)
(* Ordering::Relaxed, on x86-64 plain moves: a store first sits in the     *)
(* storing thread's store buffer, where only that thread's loads find it,  *)
(* and reaches the shared field later, in the order the stores were made.  *)
(***************************************************************************)
RaceIdle ==
    [pc |-> "idle", payload_type |-> 0, payload |-> <<>>,
     event |-> 0, current_duration |-> 0,
     last_duration |-> 0, last_event |-> 0, ret |-> None]

\* End packets of two keys at two durations, and an in-progress packet.
RacePayloads ==
    {<<e, 128, 10, d>> : e \in {1, 2}, d \in {100, 250}} \cup {<<1, 0, 10, 100>>}
RacePayloadTypes == {101}

\* The stores one thread can have pending; a further store waits for room.
MaxStoreBuffer == 2

\* What the sequential caller of the detector keeps.
dtmfCallVars == <<d_pc, d_payload_type, d_payload, d_ret, d_exit, pre_event,
                  pre_duration, d_calls, rep_event, rep_duration>>

\* The positions of the stores to `field` in a store buffer.
PendingStores(buffer, field) ==
    {i \in 1..Len(buffer) : buffer[i][1] = field}

\* field.load(Relaxed) by the owner of `buffer`: its own newest pending
\* store to the field, else the shared value.
RelaxedLoad(buffer, field, shared) ==
    LET pending == PendingStores(buffer, field)
    IN IF pending = {} THEN shared
       ELSE buffer[CHOOSE i \in pending : \A k \in pending : k <= i][2]

\* field.store(value, Relaxed) by the owner of `buffer`.
RelaxedStore(buffer, field, value) == Append(buffer, <<field, value>>)

InitRace ==
    /\ det = [t \in Threads |-> RaceIdle]
    /\ store_buffer = [t \in Threads |-> <<>>]
    /\ written = {}

\* dtmf.rs:78-98: the call up to the first load.
RaceCall(t, payload_type, payload) ==
    /\ det[t].pc = "idle"
    /\ LET parsed == DtmfPayloadParse(payload)
           rejected == \/ Len(payload) < 4
                       \/ ~PayloadTypeInRange(payload_type)
                       \/ parsed = None
                       \/ ~parsed[1].is_end
       IN det' = [det EXCEPT ![t] =
                    IF rejected
                    THEN [RaceIdle EXCEPT !.pc = "returned",
                                          !.payload_type = payload_type,
                                          !.payload = payload]
                    ELSE [RaceIdle EXCEPT !.pc = "load_duration",
                                          !.payload_type = payload_type,
                                          !.payload = payload,
                                          !.event = parsed[1].event,
                                          !.current_duration = parsed[1].duration]]
    /\ UNCHANGED <<last_event, last_duration, store_buffer, written,
                   dtmfCallVars, chainVars, codecVars>>

\* dtmf.rs:100-102 self.last_duration.load(Relaxed)
RaceLoadDuration(t) ==
    /\ det[t].pc = "load_duration"
    /\ det' = [det EXCEPT ![t].pc = "load_event",
                          ![t].last_duration =
                              RelaxedLoad(store_buffer[t], "last_duration",
                                          last_duration)]
    /\ UNCHANGED <<last_event, last_duration, store_buffer, written,
                   dtmfCallVars, chainVars, codecVars>>

\* dtmf.rs:103 self.last_event.load(Relaxed)
RaceLoadEvent(t) ==
    /\ det[t].pc = "load_event"
    /\ det' = [det EXCEPT ![t].pc = "check",
                          ![t].last_event =
                              RelaxedLoad(store_buffer[t], "last_event",
                                          last_event)]
    /\ UNCHANGED <<last_event, last_duration, store_buffer, written,
                   dtmfCallVars, chainVars, codecVars>>

\* dtmf.rs:106-110 the duplicate check, on the two loaded values
RaceCheck(t) ==
    /\ det[t].pc = "check"
    /\ det' = [det EXCEPT ![t].pc =
                  IF IsDuplicate(det[t].event, det[t].current_duration,
                                 det[t].last_event, det[t].last_duration)
                  THEN "returned" ELSE "store_event"]
    /\ UNCHANGED <<last_event, last_duration, store_buffer, written,
                   dtmfCallVars, chainVars, codecVars>>

\* dtmf.rs:113-114 self.last_event.store(event, Relaxed)
RaceStoreEvent(t) ==
    /\ det[t].pc = "store_event"
    /\ Len(store_buffer[t]) < MaxStoreBuffer
    /\ store_buffer' = [store_buffer EXCEPT ![t] =
                           RelaxedStore(@, "last_event", det[t].event % U8)]
    /\ det' = [det EXCEPT ![t].pc = "store_duration"]
    /\ UNCHANGED <<last_event, last_duration, written, dtmfCallVars,
                   chainVars, codecVars>>

\* dtmf.rs:115-138 self.last_duration.store(current_duration, Relaxed) and
\* the digit returned
RaceStoreDuration(t) ==
    /\ det[t].pc = "store_duration"
    /\ Len(store_buffer[t]) < MaxStoreBuffer
    /\ store_buffer' = [store_buffer EXCEPT ![t] =
                           RelaxedStore(@, "last_duration",
                                        det[t].current_duration)]
    /\ written' = written \cup {<<det[t].event, det[t].current_duration>>}
    /\ det' = [det EXCEPT ![t].pc = "returned", ![t].ret = DigitSymbol(det[t].event)]
    /\ UNCHANGED <<last_event, last_duration, dtmfCallVars, chainVars, codecVars>>

\* The oldest pending store of thread t reaches the shared field; from now
\* on the other thread's loads find it.
RaceStoreVisible(t) ==
    /\ store_buffer[t] # <<>>
    /\ LET oldest == Head(store_buffer[t])
       IN /\ last_event' =
                IF oldest[1] = "last_event" THEN oldest[2] ELSE last_event
          /\ last_duration' =
                IF oldest[1] = "last_duration" THEN oldest[2] ELSE last_duration
    /\ store_buffer' = [store_buffer EXCEPT ![t] = Tail(@)]
    /\ UNCHANGED <<det, written, dtmfCallVars, chainVars, codecVars>>

\* The caller has taken the Option<String>.
RaceReturn(t) ==
    /\ det[t].pc = "returned"
    /\ det' = [det EXCEPT ![t] = RaceIdle]
    /\ UNCHANGED <<last_event, last_duration, store_buffer, written,
                   dtmfCallVars, chainVars, codecVars>>

RaceThreadNext(t) ==
    \/ \E payload_type \in RacePayloadTypes, payload \in RacePayloads :
          RaceCall(t, payload_type, payload)
    \/ RaceLoadDuration(t)
    \/ RaceLoadEvent(t)
    \/ RaceCheck(t)
    \/ RaceStoreEvent(t)
    \/ RaceStoreDuration(t)
    \/ RaceStoreVisible(t)
    \/ RaceReturn(t)

NextRace == \E t \in Threads : RaceThreadNext(t)

Init == InitDtmf /\ InitChain /\ InitCodec /\ InitRace

Next == NextDtmf \/ NextChain \/ NextClone

\* The detector alone, beside a chain created at 8000 Hz that nobody calls.
InitDetectorOnly == Init /\ sample_rate[1] = 8000

SpecDtmf == InitDetectorOnly /\ [][NextDtmf]_vars

SpecChain == Init /\ [][NextChain]_vars

Spec == Init /\ [][Next]_vars

\* The session thread with a second handle: it clones the chain at some
\* point and from then on goes through either handle.
NextHandles ==
    \/ ThreadNext(Caller)
    \/ \E h \in Handles, h2 \in Handles : Clone(Caller, h, h2)

SpecHandles == Init /\ [][NextHandles]_vars

\* Two threads on the detector, beside an idle 8000 Hz chain.
SpecDtmfRace == InitDetectorOnly /\ [][NextRace]_vars

\* The factory and its instances, beside an idle 8000 Hz chain and detector.
SpecCodec == InitDetectorOnly /\ [][NextCodec]_vars

(***************************************************************************)
(* Two threads on one chain, each through the handle it owns (thread i     *)
(* owns handle i; the second handle is a clone of the first).  Here a list *)
(* operation is two steps, the call and the return of processors.lock(),   *)
(* so that a thread can be seen waiting for the lock.                      *)
(***************************************************************************)
ListOps == {"insert_processor", "append_processor", "has_processor", "remove_processor"}

\* What the list operation makes of the list, and what it returns.
ListApply(list, op, arg) ==
    CASE op = "insert_processor" -> VecInsertFront(list, arg)
      [] op = "append_processor" -> VecPush(list, arg)
      [] op = "remove_processor" -> RetainNotOfType(list, arg)
      [] op = "has_processor" -> list

ListReturn(list, op, arg) ==
    IF op = "has_processor" THEN Bool(AnyOfType(list, arg)) ELSE Unit

\* Arguments the threads pass: one processor of each type, two frames.
ConcProcessors == {p \in Processors : p.id = 1}
ConcFrames ==
    {f \in Frames : /\ f.sample_rate = 8000
                     /\ f.samples \in {SamplesRTP(0, <<37>>), SamplesPCM(<<5, -3>>)}}
ConcArgs(op) == IF op \in {"insert_processor", "append_processor"}
                THEN ConcProcessors ELSE ProcTypes

\* The longest list the two threads build between them.
MaxConcProcs == 2

\* Insert and append calls that have been made and not yet acted.
PendingGrowth ==
    Cardinality({t \in Threads : /\ call[t].pc = "list_lock"
                                  /\ call[t].nested = None
                                  /\ call[t].op \in {"insert_processor", "append_processor"}})

\* Thread t calls a list operation: it is at processors.lock().
ListEnter(t, op, arg) ==
    /\ call[t].pc = "idle"
    /\ t \in live
    /\ op \in {"insert_processor", "append_processor"} =>
           Len(processors) + PendingGrowth < MaxConcProcs
    /\ call' = [call EXCEPT ![t] =
                  [IdleCall EXCEPT !.pc = "list_lock", !.op = op, !.handle = t,
                                   !.arg = arg,
                                   !.fd0 = force_decode[t], !.rate0 = sample_rate[t]]]
    /\ UNCHANGED <<processors, proc_lock, codec_lock, live, force_decode, sample_rate, failed_once, has_memo>>
    /\ CanSpend(calls_left)
    /\ calls_left' = Spend(calls_left)
    /\ UNCHANGED outsideChain

\* lock() returns to thread t; the operation acts and drops the guard.  A
\* call made by a processor from inside process_frame (nested) returns into
\* that processor's invocation, which then completes.
ListAcquire(t) ==
    /\ call[t].pc = "list_lock"
    /\ MutexLockable(proc_lock, t)
    /\ IF call[t].nested = None
       THEN /\ processors' = ListApply(processors, call[t].op, call[t].arg)
            /\ call' = [call EXCEPT ![t].pc = "done",
                                    ![t].procs0 = processors,
                                    ![t].ret = ListReturn(processors, call[t].op, call[t].arg)]
       ELSE /\ processors' = ListApply(processors, call[t].nested[1], call[t].nested[2])
            /\ call' = [call EXCEPT ![t].pc = "pf_loop",
                                    ![t].nested = None,
                                    ![t].ran = Append(@, processors[call[t].idx]),
                                    ![t].idx = @ + 1]
    /\ UNCHANGED <<proc_lock, codec_lock, live, force_decode, sample_rate, failed_once, has_memo, calls_left>>
    /\ UNCHANGED outsideChain

\* processor.rs:92: the processor invoked by the loop calls a list operation
\* of the chain it is running in (through a handle it holds).
ProcessFrameReenter(t, op, arg) ==
    /\ call[t].pc = "pf_loop"
    /\ call[t].idx <= Len(processors)
    /\ call' = [call EXCEPT ![t].pc = "list_lock", ![t].nested = <<op, arg>>]
    /\ UNCHANGED <<processors, proc_lock, codec_lock, live, force_decode, sample_rate, failed_once, has_memo, calls_left>>
    /\ UNCHANGED outsideChain

\* The steps of thread t on the shared chain.
ConcThreadNext(t) ==
    \/ /\ call[t].pc = "idle"
       /\ \/ \E op \in ListOps : \E arg \in ConcArgs(op) : ListEnter(t, op, arg)
          \/ \E f \in ConcFrames : call[t].pc = "idle" /\ t \in live /\ ProcessFrameCall(t, t, f)
    \/ ListAcquire(t)
    \/ ProcessFrameLock(t)
    \/ ProcessFrameCheck(t)
    \/ ProcessFrameGate(t)
    \/ \E codec_ok \in BOOLEAN : ProcessFrameDecode(t, codec_ok)
    \/ \E outcome \in ProcOutcomes : ProcessFrameRun(t, outcome)
    \/ ProcessFrameReturn(t)
    \/ Finish(t)

NextConc ==
    \/ \E t \in Threads : ConcThreadNext(t)
    \/ Clone(Caller, 1, 2)

\* A chain created at 8000 Hz.
InitConc == Init /\ sample_rate[1] = 8000

SpecConc == InitConc /\ [][NextConc]_vars

\* The same with processors that call back into their chain.
NextReenter ==
    \/ NextConc
    \/ \E t \in Threads, op \in ListOps : \E arg \in ConcArgs(op) :
          ProcessFrameReenter(t, op, arg)

SpecReenter == InitConc /\ [][NextReenter]_vars

(***************************************************************************)
(* The two threads with a workload that ends: between them they make       *)
(* MaxLiveCalls calls, with processors that return and do not call back.   *)
(* Each thread that can take a step inside a call eventually takes one     *)
(* (the scheduler runs every thread); nothing is assumed of the order in   *)
(* which the mutex serves its waiters.                                     *)
(***************************************************************************)
MaxLiveCalls == 3

InitLive ==
    /\ InitDtmf /\ InitCodec /\ InitRace
    /\ ProcessorChainNew(8000)
    /\ call = [t \in Threads |-> IdleCall]
    /\ failed_once = FALSE
    /\ has_memo = None
    /\ calls_left = MaxLiveCalls

\* The steps of thread t inside a call it has made.
ThreadProgress(t) ==
    \/ ListAcquire(t)
    \/ ProcessFrameLock(t)
    \/ ProcessFrameCheck(t)
    \/ ProcessFrameGate(t)
    \/ \E codec_ok \in BOOLEAN : ProcessFrameDecode(t, codec_ok)
    \/ \E outcome \in ProcOutcomes : ProcessFrameRun(t, outcome)
    \/ ProcessFrameReturn(t)

SpecLive ==
    /\ InitLive
    /\ [][NextConc]_vars
    /\ \A t \in Threads : WF_vars(ThreadProgress(t))

(***************************************************************************)
(* Properties of DtmfDetector, checked under SpecDtmf.  They are stated on  *)
(* the state right after a detect_rtp call (d_pc = "returned"), from the   *)
(* raw arguments of the call.                                              *)
(***************************************************************************)
Returned == d_pc = "returned"

\* The call carried a payload of >= 4 bytes, a payload type in 96..127, an
\* event code <= 15 and the end flag.
ArgsValidEnd ==
    /\ Len(d_payload) >= 4
    /\ d_payload_type \in 96..127
    /\ d_payload[1] <= 15
    /\ d_payload[2] >= 128

ArgsEvent == d_payload[1]
ArgsDuration == d_payload[4]

\* 0..9 -> "0".."9", 10 -> "*", 11 -> "#", 12..15 -> "A".."D"
SymbolTable == <<"0", "1", "2", "3", "4", "5", "6", "7", "8", "9",
                 "*", "#", "A", "B", "C", "D">>

FieldsUnchanged == last_event = pre_event /\ last_duration = pre_duration

\* C1: with (E, D) the event and duration of the most recent call that
\* returned a digit, or (0, 0), a valid end-of-event call returns no report
\* iff event = E and (d <= D or d - D < 100), and a digit otherwise; a call
\* that returns no report leaves (E, D), and the fields the next call is
\* judged by, where they were.
C1_DuplicateWindow ==
    /\ (Returned /\ ArgsValidEnd) =>
         /\ (d_ret = None) <=>
              (/\ ArgsEvent = rep_event
               /\ (ArgsDuration <= rep_duration \/ ArgsDuration - rep_duration < 100))
         /\ (d_ret # None) => Len(d_ret) = 1
    /\ (Returned /\ d_ret = None) =>
         (last_event = rep_event /\ last_duration = rep_duration)
    /\ ~Returned => (last_event = rep_event /\ last_duration = rep_duration)

\* A repeat of the reported event inside the window was suppressed, and a
\* different report had been made before (D > 0).
C1_Witness ==
    /\ Returned /\ ArgsValidEnd
    /\ rep_duration > 0
    /\ ArgsEvent = rep_event
    /\ ArgsDuration > rep_duration
    /\ ArgsDuration - rep_duration = 99
    /\ d_ret = None

\* C2: a call whose payload has the end-of-event flag (bit 7 of byte 1)
\* clear returns no report and leaves last_event and last_duration unchanged,
\* whatever the detector state, the payload type and the other bytes.
C2_NoReportWithoutEndFlag ==
    (Returned /\ Len(d_payload) >= 2 /\ d_payload[2] < 128) =>
        (d_ret = None /\ FieldsUnchanged)

\* An otherwise acceptable in-progress packet of a new key, with all reserved
\* bits set, on a detector that has reported before.
C2_Witness ==
    /\ Returned
    /\ Len(d_payload) = 4 /\ d_payload[2] = 127
    /\ d_payload_type = 101
    /\ d_payload[1] <= 15 /\ d_payload[1] # pre_event
    /\ pre_duration > 0
    /\ d_ret = None

\* C3: a payload shorter than 4 bytes, a payload type outside 96..127 or an
\* event code above 15 gives no report and leaves last_event and
\* last_duration unchanged.
C3_MalformedIsSilent ==
    (/\ Returned
     /\ \/ Len(d_payload) < 4
        \/ d_payload_type \notin 96..127
        \/ (Len(d_payload) >= 1 /\ d_payload[1] > 15)) =>
        (d_ret = None /\ FieldsUnchanged)

\* An end packet with event code 16 and a valid payload type, on a detector
\* that has reported before.
C3_Witness ==
    /\ Returned
    /\ Len(d_payload) = 4 /\ d_payload[1] = 16 /\ d_payload[2] >= 128
    /\ d_payload_type \in 96..127
    /\ pre_duration > 0
    /\ d_ret = None

\* C4: the first detect_rtp call on a fresh detector, when it carries a
\* valid end-of-event payload, returns the digit symbol of the event, for
\* every event code and every duration.
C4_FirstValidEndReports ==
    (Returned /\ d_calls = 1 /\ ArgsValidEnd) =>
        d_ret = Some(SymbolTable[ArgsEvent + 1])

\* C5: whenever a digit is returned it is the symbol of the payload's event
\* code, and last_event and last_duration are then the payload's event code
\* and fourth byte; a call that returns nothing has not updated the fields.
C5_ReportMatchesPayload ==
    /\ (Returned /\ d_ret # None) =>
         /\ Len(d_payload) >= 4
         /\ ArgsEvent \in 0..15
         /\ d_ret = Some(SymbolTable[ArgsEvent + 1])
         /\ last_event = ArgsEvent
         /\ last_duration = ArgsDuration
    /\ (Returned /\ d_ret = None) => FieldsUnchanged

\* "#" was reported over a detector that last reported another digit.
C5_Witness ==
    /\ Returned
    /\ d_ret = Some("#")
    /\ pre_event # 11
    /\ pre_duration > 0
    /\ last_event = 11

(***************************************************************************)
(* Properties of ProcessorChain, checked under SpecChain, on the call      *)
(* record of the session thread.                                           *)
(***************************************************************************)
TheCall == call[Caller]

ProcessFrameDone == TheCall.pc = "done" /\ TheCall.op = "process_frame"

\* The chain, as the call in TheCall sees it, has force_decode == false and
\* zero processors.
ChainIdle == ~force_decode[TheCall.handle] /\ processors = <<>>

\* An input frame in RTP form whose payload type is one of the audio codecs'.
IsAudioRtp(f) == f.samples.form = "RTP" /\ f.samples.payload_type \in {0, 8, 9}

\* What the decode step is to make of input frame f on a chain of that
\* rate: the codec's samples, or its substitute when it could not decode.
AfterDecodeStep(f, rate) ==
    IF IsAudioRtp(f)
    THEN [f EXCEPT !.samples = SamplesPCM(IF TheCall.codec_failed
                                          THEN CodecSubstitute
                                          ELSE TrackCodecDecode(f.samples.payload_type,
                                                                f.samples.payload, rate)),
                   !.sample_rate = rate]
    ELSE f

\* Frame f after the processors of list have mutated it, first to last.
RECURSIVE AfterProcessors(_, _)
AfterProcessors(list, f) ==
    IF list = <<>> THEN f
    ELSE AfterProcessors(Tail(list), ProcMutate(Head(list), f))

\* C6: process_frame on a chain with force_decode == false and zero
\* processors returns Ok, leaves every field of the frame as it was and does
\* not invoke the codec.
C6_FastExitLeavesFrame ==
    (ProcessFrameDone /\ ChainIdle) =>
        /\ TheCall.ret = Ok
        /\ TheCall.frame = TheCall.frame0
        /\ ~TheCall.decoded
        /\ TheCall.ran = <<>>

\* The fast exit was taken with a non-empty PCMU payload in the frame.
C6_Witness ==
    /\ ProcessFrameDone /\ ChainIdle
    /\ TheCall.frame0.samples.form = "RTP"
    /\ TheCall.frame0.samples.payload_type = 0
    /\ Len(TheCall.frame0.samples.payload) = 2
    /\ TheCall.ret = Ok

\* C7: without the fast exit, before the first processor runs an RTP frame
\* of an audio payload type has become a PCM frame with the chain's
\* sample_rate, through the codec; any other frame is as it came in and the
\* codec has not been invoked; track_id and timestamp are as they came in.
C7_DecodeGate ==
    /\ (TheCall.pc = "pf_loop" /\ TheCall.idx = 1) =>
         LET f0 == TheCall.frame0
             f == TheCall.frame
         IN /\ f.track_id = f0.track_id
            /\ f.timestamp = f0.timestamp
            /\ IF IsAudioRtp(f0)
               THEN /\ f.samples.form = "PCM"
                    /\ f.sample_rate = sample_rate[TheCall.handle]
                    /\ f = AfterDecodeStep(f0, sample_rate[TheCall.handle])
                    /\ TheCall.decoded
               ELSE /\ f = f0
                    /\ ~TheCall.decoded
    /\ (ProcessFrameDone /\ ~ChainIdle) =>
         (TheCall.decoded <=> IsAudioRtp(TheCall.frame0))

\* A G.722 frame labelled with another rate than the chain's stands decoded
\* before the first processor of a chain that does not force decoding.
C7_Witness ==
    /\ TheCall.pc = "pf_loop" /\ TheCall.idx = 1
    /\ ~force_decode[TheCall.handle] /\ processors # <<>>
    /\ TheCall.frame0.samples.form = "RTP"
    /\ TheCall.frame0.samples.payload_type = 9
    /\ TheCall.frame0.samples.payload # <<>>
    /\ TheCall.frame0.sample_rate # sample_rate[TheCall.handle]
    /\ TheCall.frame.samples.form = "PCM"
    /\ TheCall.frame.sample_rate = sample_rate[TheCall.handle]

\* C8: insert_processor(p) puts p ahead of the processors present and
\* append_processor(p) behind them; a process_frame call runs the
\* processors of the list in list order, none skipped, repeated or
\* reordered, and all of them when it succeeds.
C8_RunsInListOrder ==
    /\ (TheCall.pc = "done" /\ TheCall.op = "insert_processor") =>
         (Head(processors) = TheCall.arg /\ Tail(processors) = TheCall.procs0)
    /\ (TheCall.pc = "done" /\ TheCall.op = "append_processor") =>
         /\ processors[Len(processors)] = TheCall.arg
         /\ SubSeq(processors, 1, Len(processors) - 1) = TheCall.procs0
    /\ TheCall.pc = "pf_loop" =>
         TheCall.ran = SubSeq(processors, 1, TheCall.idx - 1)
    /\ (ProcessFrameDone /\ TheCall.ret = Ok /\ ~ChainIdle) =>
         TheCall.ran = processors

\* A successful call ran three processors, the last one inserted being first.
C8_Witness ==
    /\ ProcessFrameDone /\ TheCall.ret = Ok
    /\ Len(TheCall.ran) = 3
    /\ TheCall.ran[1] # TheCall.ran[2] /\ TheCall.ran[2] # TheCall.ran[3]
    /\ TheCall.ran[1] # TheCall.ran[3]

\* C9: when the k-th processor fails, process_frame returns its failure, no
\* processor after position k has run, and the frame holds the decode result
\* and the mutations of processors 1..k-1, with or without what processor k
\* changed.
C9_FailureAborts ==
    (ProcessFrameDone /\ TheCall.ret # Ok) =>
        LET k == Len(TheCall.ran)
            kept == AfterProcessors(SubSeq(processors, 1, k - 1),
                                    AfterDecodeStep(TheCall.frame0, sample_rate[TheCall.handle]))
        IN /\ k \in 1..Len(processors)
           /\ TheCall.ran = SubSeq(processors, 1, k)
           /\ TheCall.ret = Err(processors[k])
           /\ TheCall.frame \in {kept, ProcMutate(processors[k], kept)}

\* The second of three processors failed on a decoded frame.
C9_Witness ==
    /\ ProcessFrameDone /\ TheCall.ret # Ok
    /\ Len(processors) = 3 /\ Len(TheCall.ran) = 2
    /\ TheCall.decoded
    /\ TheCall.frame0.samples.payload # <<>>
    /\ TheCall.frame # TheCall.frame0

\* C10: when process_frame has returned a failure both locks are free and the
\* processor list, sample_rate and force_decode are as before the call; a
\* later process_frame call decodes its frame and runs the whole chain.
C10_FailureNotFatal ==
    /\ (ProcessFrameDone /\ TheCall.ret # Ok) =>
         /\ proc_lock = NoOwner
         /\ codec_lock = NoOwner
         /\ processors = TheCall.procs0
         /\ force_decode[TheCall.handle] = TheCall.fd0
         /\ sample_rate[TheCall.handle] = TheCall.rate0
    /\ (failed_once /\ TheCall.pc \in {"idle", "done"}) =>
         (proc_lock = NoOwner /\ codec_lock = NoOwner)
    /\ (failed_once /\ ProcessFrameDone /\ TheCall.ret = Ok /\ ~ChainIdle) =>
         /\ TheCall.ran = processors
         /\ TheCall.frame =
              AfterProcessors(processors,
                              AfterDecodeStep(TheCall.frame0, sample_rate[TheCall.handle]))

\* After a failed call, a later call decoded its frame and ran two processors.
C10_Witness ==
    /\ failed_once
    /\ ProcessFrameDone /\ TheCall.ret = Ok
    /\ TheCall.decoded
    /\ Len(TheCall.ran) = 2

\* The processors of list whose type is not T, in list order.
RECURSIVE WithoutType(_, _)
WithoutType(list, T) ==
    IF list = <<>> THEN <<>>
    ELSE IF Head(list).type = T THEN WithoutType(Tail(list), T)
         ELSE <<Head(list)>> \o WithoutType(Tail(list), T)

\* Everything of the chain but the call record is as the call found it.
ListCallLeftChainAlone ==
    /\ processors = TheCall.procs0
    /\ force_decode[TheCall.handle] = TheCall.fd0
    /\ sample_rate[TheCall.handle] = TheCall.rate0
    /\ proc_lock = NoOwner /\ codec_lock = NoOwner

\* C11: has_processor::<T>() returns true iff the list holds at least one
\* processor of type T; it changes neither the list nor any other state of
\* the chain; it returns what the previous has_processor::<T>() returned
\* when no insert, append or remove call came in between.
C11_HasProcessorByType ==
    (TheCall.pc = "done" /\ TheCall.op = "has_processor") =>
        /\ TheCall.ret = Bool(\E i \in 1..Len(TheCall.procs0) :
                                  TheCall.procs0[i].type = TheCall.arg)
        /\ ListCallLeftChainAlone
        /\ (has_memo # None /\ has_memo[1] = TheCall.arg) => TheCall.ret = has_memo[2]

\* A repeated has_processor::<Denoiser>() answered true on a list whose
\* first processor is of another type.
C11_Witness ==
    /\ TheCall.pc = "done" /\ TheCall.op = "has_processor"
    /\ TheCall.arg = "Denoiser"
    /\ Len(processors) = 3 /\ processors[1].type = "Recorder"
    /\ has_memo = <<"Denoiser", Bool(TRUE)>>
    /\ TheCall.ret = Bool(TRUE)

\* C12: remove_processor::<T>() removes every processor of type T and
\* nothing else: afterwards the list holds none of type T, the others are
\* all there in their former order, and on a list without a T (as after a
\* first remove) the call changes nothing.
C12_RemoveAllOfType ==
    (TheCall.pc = "done" /\ TheCall.op = "remove_processor") =>
        /\ \A i \in 1..Len(processors) : processors[i].type # TheCall.arg
        /\ processors = WithoutType(TheCall.procs0, TheCall.arg)
        /\ (\A i \in 1..Len(TheCall.procs0) : TheCall.procs0[i].type # TheCall.arg) =>
              processors = TheCall.procs0
        /\ TheCall.ret = Unit
        /\ force_decode[TheCall.handle] = TheCall.fd0
        /\ sample_rate[TheCall.handle] = TheCall.rate0
        /\ proc_lock = NoOwner /\ codec_lock = NoOwner

\* Two Denoiser instances around a Recorder were removed in one call.
C12_Witness ==
    /\ TheCall.pc = "done" /\ TheCall.op = "remove_processor"
    /\ TheCall.arg = "Denoiser"
    /\ Len(TheCall.procs0) = 3
    /\ TheCall.procs0[1].type = "Denoiser" /\ TheCall.procs0[3].type = "Denoiser"
    /\ TheCall.procs0[1] # TheCall.procs0[3]
    /\ processors = <<TheCall.procs0[2]>>

\* C20: last_duration never exceeds 255 (the duration is read from the one
\* byte payload[3]); so once a digit has been reported with a duration of
\* 156 or more, no payload carrying the same digit is reported until another
\* digit has been reported.
C20_DurationByteCeiling ==
    /\ last_duration \in 0..255
    /\ rep_duration \in 0..255
    /\ (/\ Returned
        /\ rep_duration >= 156
        /\ Len(d_payload) >= 1 /\ d_payload[1] = rep_event) => d_ret = None

\* After a report of duration 156, the same key at the largest duration a
\* byte can carry was suppressed.
C20_Witness ==
    /\ Returned /\ ArgsValidEnd
    /\ rep_duration = 156 /\ last_duration = 156
    /\ ArgsEvent = rep_event
    /\ ArgsDuration = 255
    /\ d_ret = None

\* C14 as claimed: a call whose decode failed returns the codec's error,
\* has run no processor and has not turned the frame into a PCM frame.
C14_CodecErrorReturned ==
    (ProcessFrameDone /\ TheCall.codec_failed) =>
        /\ TheCall.ret = Err(DecodeError)
        /\ TheCall.ran = <<>>
        /\ TheCall.frame = TheCall.frame0

\* C14, amended: process_frame has no codec-error result.  When the codec
\* could not decode, the frame still becomes a PCM frame at the chain's
\* sample_rate, holding what decode returned in place of audio; the
\* processors run on it as on any frame, and the call returns Ok unless a
\* processor fails, in which case it returns that processor's failure.
C14_CodecFailureGoesOn ==
    /\ (TheCall.pc = "pf_loop" /\ TheCall.idx = 1 /\ TheCall.codec_failed) =>
         /\ TheCall.frame.samples = SamplesPCM(CodecSubstitute)
         /\ TheCall.frame.sample_rate = sample_rate[TheCall.handle]
         /\ proc_lock = Caller
    /\ (ProcessFrameDone /\ TheCall.codec_failed) =>
         /\ TheCall.ret # Err(DecodeError)
         /\ TheCall.frame.samples.form = "PCM"
         /\ TheCall.ret = Ok => TheCall.ran = processors
         /\ TheCall.ret # Ok =>
               /\ TheCall.ran # <<>>
               /\ TheCall.ret = Err(TheCall.ran[Len(TheCall.ran)])

\* After a failed decode of a non-empty PCMA payload two processors ran and
\* the call returned Ok.
C14_Witness ==
    /\ ProcessFrameDone /\ TheCall.codec_failed
    /\ TheCall.frame0.samples.form = "RTP"
    /\ TheCall.frame0.samples.payload_type = 8
    /\ TheCall.frame0.samples.payload # <<>>
    /\ Len(TheCall.ran) = 2
    /\ TheCall.ret = Ok

\* The frame was in PCM form when it was handed to process_frame.
PcmOnEntry == TheCall.frame0.samples.form = "PCM"

\* C15 as claimed: every frame in PCM form when process_frame returns Ok
\* carries the chain's sample_rate, whether it came in as RTP or as PCM.
C15_PcmAtChainRate ==
    (ProcessFrameDone /\ TheCall.ret = Ok /\ TheCall.frame.samples.form = "PCM") =>
        TheCall.frame.sample_rate = sample_rate[TheCall.handle]

\* C15, amended: a frame that process_frame itself decoded (RTP of an audio
\* payload type on entry, fast exit not taken) is in PCM form with the
\* chain's sample_rate when the call returns Ok; a frame that was PCM on
\* entry is still in PCM form and keeps the sample_rate it came with,
\* whatever the chain's.
C15_DecodedAtChainRate ==
    (ProcessFrameDone /\ TheCall.ret = Ok) =>
        /\ TheCall.decoded =>
              /\ TheCall.frame.samples.form = "PCM"
              /\ TheCall.frame.sample_rate = sample_rate[TheCall.handle]
        /\ PcmOnEntry =>
              /\ TheCall.frame.samples.form = "PCM"
              /\ TheCall.frame.sample_rate = TheCall.frame0.sample_rate
              /\ ~TheCall.decoded
        /\ (TheCall.frame.samples.form = "PCM" /\ ~PcmOnEntry) => TheCall.decoded

\* A G.722 frame labelled 8000 Hz came back as PCM at the 16000 Hz of its
\* chain, after two processors.
C15_Witness ==
    /\ ProcessFrameDone /\ TheCall.ret = Ok
    /\ TheCall.decoded /\ ~TheCall.codec_failed
    /\ TheCall.frame0.samples.payload_type = 9
    /\ TheCall.frame0.samples.payload # <<>>
    /\ TheCall.frame0.sample_rate = 8000
    /\ sample_rate[TheCall.handle] = 16000
    /\ TheCall.frame.sample_rate = 16000
    /\ Len(TheCall.ran) = 2

\* C13: all handles of one chain observe the same chain state: the
\* processor list and the codec are one object behind every handle, and
\* sample_rate and force_decode read the same through every handle, whatever
\* has been set through any of them.
C13_HandlesObserveSameState ==
    \A h1 \in live, h2 \in live :
        /\ sample_rate[h1] = sample_rate[h2]
        /\ force_decode[h1] = force_decode[h2]

(***************************************************************************)
(* Properties of the chain under two threads, checked under SpecConc and   *)
(* SpecReenter.                                                            *)
(***************************************************************************)
\* Thread t is inside process_frame between the return of processors.lock()
\* and the drop of that guard ("list_lock": inside a processor that has
\* called a list operation).
InFlight(t) ==
    /\ call[t].op = "process_frame"
    /\ call[t].pc \in {"pf_check", "pf_decode", "pf_codec", "pf_loop", "list_lock"}

\* Thread t has called a list operation, or process_frame, and is waiting
\* for processors.lock() to return.
AwaitsListLock(t) == call[t].pc \in {"list_lock", "pf_lock"}

\* Thread t is at the head of the processor loop of its frame.
InLoop(t) == call[t].op = "process_frame" /\ call[t].pc = "pf_loop"

\* C16: process_frame is atomic with respect to the other operations on the
\* chain: while a frame is in flight its thread holds the list lock and the
\* list is as it was when the lock was acquired, so an insert, append or
\* remove issued meanwhile has not acted; the processors run are those of
\* that list, in order; no two process_frame calls are in flight together,
\* and the codec is only used in flight under its own lock.
C16_ProcessFrameAtomic ==
    /\ \A t \in Threads :
         /\ InFlight(t) =>
               /\ proc_lock = t
               /\ processors = call[t].procs0
         /\ InLoop(t) =>
               call[t].ran = SubSeq(call[t].procs0, 1, call[t].idx - 1)
         /\ call[t].pc = "pf_codec" => codec_lock = t
         /\ (call[t].pc = "done" /\ call[t].op = "process_frame" /\ call[t].ret = Ok) =>
               call[t].ran \in {call[t].procs0, <<>>}
         /\ (call[t].pc = "done" /\ call[t].op = "process_frame" /\ call[t].ret # Ok) =>
               call[t].ran = SubSeq(call[t].procs0, 1, Len(call[t].ran))
    /\ \A t \in Threads, u \in Threads :
         (InFlight(t) /\ InFlight(u)) => t = u
    /\ (\A t \in Threads : ~InFlight(t)) => codec_lock = NoOwner

\* While one thread's frame is between its first and second processor, the
\* other thread has issued a remove of the second one's type and waits for
\* the lock.
C16_Witness ==
    \E t \in Threads, u \in Threads :
        /\ InLoop(t) /\ call[t].idx = 2
        /\ Len(processors) = 2
        /\ call[t].decoded
        /\ call[u].pc = "list_lock" /\ call[u].op = "remove_processor"
        /\ call[u].arg = processors[2].type

\* Thread t is inside a processor that has called a list operation of its
\* own chain, from within process_frame.
Reentered(t) == call[t].pc = "list_lock" /\ call[t].nested # None

\* What a step leaves in place while thread t is in that position: the
\* nested call has not returned, process_frame has not returned, the lock is
\* held, the list is untouched and no thread waiting for the lock got it.
StaysBlocked(t) ==
    /\ call'[t] = call[t]
    /\ proc_lock' = t
    /\ processors' = processors
    /\ \A u \in Threads : AwaitsListLock(u) => call'[u] = call[u]

\* C19: a processor that calls insert_processor, append_processor or
\* remove_processor (or has_processor) on the chain it runs in, from within
\* process_frame, is waiting for a lock its own thread holds: from then on
\* the nested call never gets the lock, the enclosing process_frame never
\* returns, and every operation on the chain a thread is in or enters later
\* stays at its lock() call; nothing in the chain ends this.
C19_ReentryDeadlocks ==
    /\ [](\A t \in Threads : Reentered(t) => (proc_lock = t /\ InFlight(t)))
    /\ [][\A t \in Threads : Reentered(t) => StaysBlocked(t)]_vars

\* A processor of thread 1 has called remove_processor from inside
\* process_frame, and thread 2 has since entered process_frame and waits.
C19_Witness ==
    /\ Reentered(1)
    /\ call[1].nested[1] = "remove_processor"
    /\ call[1].idx = 2
    /\ call[2].pc = "pf_lock"

ConsistentPairs == written \cup {<<0, 0>>}

\* C18: under concurrent detect_rtp calls every duplicate check is made
\* against a pair written together by one accepted detection (or the
\* initial pair), and the stored (last_event, last_duration) is such a pair
\* whenever no call is in progress and no store is still on its way.
C18_PairsNeverMixed ==
    /\ \A t \in Threads :
         det[t].pc = "check" =>
             <<det[t].last_event, det[t].last_duration>> \in ConsistentPairs
    /\ (\A t \in Threads : /\ det[t].pc \in {"idle", "returned"}
                            /\ store_buffer[t] = <<>>) =>
         <<last_event, last_duration>> \in ConsistentPairs

\* Thread t is in a call that has not returned.
InCall(t) == call[t].pc \notin {"idle", "done"}

\* The locks as the chain's operations use them: the codec lock is only
\* held by a thread that is in process_frame, at the decode, and holds the
\* list lock; a thread outside a call holds no lock; a thread waits for the
\* list lock only behind a thread that is inside a call, and never for the
\* codec lock.
LockDiscipline ==
    \A t \in Threads :
        /\ codec_lock = t =>
              /\ proc_lock = t
              /\ call[t].op = "process_frame" /\ call[t].pc = "pf_codec"
        /\ proc_lock = t => InFlight(t)
        /\ ~InCall(t) => (proc_lock # t /\ codec_lock # t)
        /\ (AwaitsListLock(t) /\ proc_lock # NoOwner) =>
              (proc_lock \in Threads \ {t} /\ InFlight(proc_lock))
        /\ call[t].pc = "pf_decode" => codec_lock = NoOwner

\* C21: the chain's locking cannot deadlock.  With two threads making calls
\* through handles of one chain, and processors that return and do not call
\* back, every call returns; only process_frame holds two locks, the list
\* lock first and the codec lock inside it; no lock is held past the return
\* of the call that took it, whether it returned Ok or Err.
C21_NoDeadlock ==
    /\ []LockDiscipline
    /\ \A t \in Threads : InCall(t) ~> (call[t].pc = "done")

\* One thread's process_frame has returned a processor's failure after a
\* decode, the locks are free, and the other thread, which had called
\* insert_processor meanwhile, is about to get the list lock.
C21_Witness ==
    \E t \in Threads, u \in Threads :
        /\ call[t].pc = "done" /\ call[t].op = "process_frame"
        /\ call[t].ret # Ok /\ call[t].decoded
        /\ call[u].pc = "list_lock" /\ call[u].op = "insert_processor"
        /\ proc_lock = NoOwner /\ codec_lock = NoOwner
        /\ calls_left = 0

====
